---- MODULE Spec2Model ----
(***************************************************************************)
(* The unix-socket request handler of the buds daemon                      *)
(* (src/daemon/unix_socket/connection_handler.rs).                         *)
(*                                                                         *)
(* One task per accepted connection runs handle_client: it reads and       *)
(* decodes one request, locks the connection data (the registry of         *)
(* connected devices with their mirrored state), resolves the device,      *)
(* runs the command and writes one response.  The tasks interleave at the  *)
(* .await points of the handler: the two lock().await, the device          *)
(* send().await, config.save().await and the response write.               *)
(***************************************************************************)
EXTENDS Naturals, FiniteSets, Sequences, TLC

VARIABLES
    pc,           \* pc[c]: where task c stands in handle_client
    payload,      \* payload[c]: the decoded Request
    device_addr,  \* device_addr[c]: the resolved address ("" before resolution)
    new_payload,  \* new_payload[c]: the Response handed to respond()
    inflight,     \* inflight[c]: the message given to device_data.send()
    send_res,     \* send_res[c]: what send() returned to c
    saves,        \* saves[c]: number of config.save() calls c made
    save_res,     \* save_res[c]: what config.save() returned to c
    written,      \* written[c]: responses written and flushed on c's stream
    cd_lock,      \* holder of the Mutex<ConnectionData> guard, or NoTask
    cfg_lock,     \* holder of the Mutex<Config> guard, or NoTask
    devices,      \* ConnectionData: address -> BudsInfoInner (mirrored state)
    config,       \* Config: address -> per-device config entry
    acked,        \* per device: the values the earbuds last confirmed
    persisted,    \* the copy of config that the last successful save() wrote
    pre           \* devices, config and persisted as they were when cd_lock was taken

vars == <<pc, payload, device_addr, new_payload, inflight, send_res, saves,
          save_res, written, cd_lock, cfg_lock, devices, config, acked, persisted, pre>>

----------------------------------------------------------------------------
(* Bounds and input sets *)

NumTasks == 2

Tasks == 1..NumTasks

NoTask == 0

Absent == "<none>"      \* Option<String>::None

Pending == "<unread>"   \* a field of the request the handler has not read yet

Cmds == {"get_status", "set_value", "toggle_value", "set_config", "reboot"}

DeviceFields == {Absent, "d1", "d2", "zz"}

Keys == {Absent, "noise_reduction", "lock_touchpad", "equalizer",
         "auto_pause", "auto_play", "low_battery_notification", "volume"}

Values == {Absent, "true", "false", "2", "x"}

SendErrors == {"send timed out"}

SaveErrors == {"disk full"}

\* <<connected devices, addresses with a config entry>> at daemon start
\* "d2" is connected without a config entry, "zz" has an entry and is not connected
InitialWorlds == { <<{}, {"d1"}>>,
                   <<{"d1", "d2"}, {"d1", "zz"}>> }

----------------------------------------------------------------------------
(* Data *)

new_error(device, msg) ==
    [status |-> "error", device |-> device, message |-> msg, payload |-> {}]

new_success(device, pl) ==
    [status |-> "success", device |-> device, message |-> Absent, payload |-> pl]

NoResponse ==
    [status |-> "none", device |-> "", message |-> Absent, payload |-> {}]

NoPayload ==
    [cmd |-> Absent, device |-> Absent, opt_param1 |-> Absent, opt_param2 |-> Absent]

NoMessage == [kind |-> "none", flag |-> FALSE, preset |-> 0]

InitialInner(a) ==
    [address |-> a, noise_reduction |-> (a = "d2"),
     touchpads_blocked |-> FALSE, equalizer_type |-> 0]

InitialConfig(a) ==
    [auto_pause_music |-> TRUE, auto_resume_music |-> FALSE,
     low_battery_notification |-> (a = "zz")]

Mirror(inner) ==
    [noise_reduction |-> inner.noise_reduction,
     touchpads_blocked |-> inner.touchpads_blocked,
     equalizer_type |-> inner.equalizer_type]

----------------------------------------------------------------------------
(* Pure helpers *)

str_to_bool(s) == s \in {"true", "True", "TRUE"}

bool_to_string(b) == IF b THEN "true" ELSE "false"

\* value.parse::<u8>(): {} for Err, {n} for Ok(n)
parse_u8(s) == IF s = "2" THEN {2} ELSE {}

EqualizerDecode(n) == IF n \in 0..5 THEN n ELSE 0

unwrap_or_default(s) == IF s = Absent THEN "" ELSE s

\* the addresses get_device_address may return; {} is None
get_device_address(devs, s) ==
    IF s = "" THEN DOMAIN devs
    ELSE IF s \in DOMAIN devs THEN {s} ELSE {}

get_device_count(devs) == Cardinality(DOMAIN devs)

has_device_config(cfg, a) == a \in DOMAIN cfg

\* Mutex::lock().await returns only when no task holds the guard.
CanLock_Always(holder) == TRUE

CanLock(holder) == holder = NoTask

Resolution_NoCountCheck(devs, field) ==
    LET found == get_device_address(devs, unwrap_or_default(field)) IN
      IF found = {}
      THEN [err |-> "Device not found", found |-> {}]
      ELSE [err |-> Absent, found |-> found]

Resolution_FirstDevice(devs, field) ==
    LET found == get_device_address(devs, unwrap_or_default(field)) IN
      IF get_device_count(devs) = 0
      THEN [err |-> "No connected device found", found |-> {}]
      ELSE IF found = {}
      THEN [err |-> Absent, found |-> DOMAIN devs]
      ELSE [err |-> Absent, found |-> found]

\* handle_client, lines 48-62: the error the resolution answers with, or the
\* addresses the device field resolves to.
Resolution(devs, field) ==
    LET found == get_device_address(devs, unwrap_or_default(field)) IN
      IF get_device_count(devs) = 0
      THEN [err |-> "No connected device found", found |-> {}]
      ELSE IF found = {}
      THEN [err |-> "Device not found", found |-> {}]
      ELSE [err |-> Absent, found |-> found]

BudsMessage_EqualizerDefault(key, value) ==
    CASE key = "noise_reduction" ->
           [ok |-> TRUE, err |-> Absent,
            msg |-> [kind |-> "set_noise_reduction",
                     flag |-> str_to_bool(value), preset |-> 0]]
      [] key = "lock_touchpad" ->
           [ok |-> TRUE, err |-> Absent,
            msg |-> [kind |-> "lock_touchpad",
                     flag |-> str_to_bool(value), preset |-> 0]]
      [] key = "equalizer" ->
           [ok |-> TRUE, err |-> Absent,
            msg |-> [kind |-> "new_equalizer", flag |-> FALSE,
                     preset |-> IF parse_u8(value) = {} THEN 0
                                ELSE EqualizerDecode(CHOOSE n \in parse_u8(value) : TRUE)]]
      [] OTHER ->
           [ok |-> FALSE, err |-> "Invaild key to set to",
            msg |-> [kind |-> "none", flag |-> FALSE, preset |-> 0]]

BudsMessage_WrongMessage(key, value) ==
    CASE key \in {"noise_reduction", "lock_touchpad"} ->
           [ok |-> TRUE, err |-> Absent,
            msg |-> [kind |-> "lock_touchpad",
                     flag |-> str_to_bool(value), preset |-> 0]]
      [] OTHER ->
           [ok |-> FALSE, err |-> "Invaild key to set to",
            msg |-> [kind |-> "none", flag |-> FALSE, preset |-> 0]]

\* The first half of set_buds_option: the message built for send(), or the
\* error returned without sending.
BudsMessage(key, value) ==
    CASE key = "noise_reduction" ->
           [ok |-> TRUE, err |-> Absent,
            msg |-> [kind |-> "set_noise_reduction",
                     flag |-> str_to_bool(value), preset |-> 0]]
      [] key = "lock_touchpad" ->
           [ok |-> TRUE, err |-> Absent,
            msg |-> [kind |-> "lock_touchpad",
                     flag |-> str_to_bool(value), preset |-> 0]]
      [] key = "equalizer" ->
           IF parse_u8(value) = {}
           THEN [ok |-> FALSE, err |-> "could not parse value", msg |-> NoMessage]
           ELSE [ok |-> TRUE, err |-> Absent,
                 msg |-> [kind |-> "new_equalizer", flag |-> FALSE,
                          preset |-> EqualizerDecode(CHOOSE n \in parse_u8(value) : TRUE)]]
      [] OTHER ->
           [ok |-> FALSE, err |-> "Invaild key to set to", msg |-> NoMessage]

Commit_Unconfirmed(inner, msg, res) ==
    CASE msg.kind = "set_noise_reduction" ->
           [inner EXCEPT !.noise_reduction = msg.flag]
      [] msg.kind = "lock_touchpad" ->
           [inner EXCEPT !.touchpads_blocked = msg.flag]
      [] msg.kind = "new_equalizer" ->
           [inner EXCEPT !.equalizer_type = msg.preset]
      [] OTHER -> inner

\* The second half of set_buds_option: the mirrored state after send() returned.
Commit(inner, msg, res) ==
    IF res # "ok" THEN inner
    ELSE CASE msg.kind = "set_noise_reduction" ->
                [inner EXCEPT !.noise_reduction = msg.flag]
           [] msg.kind = "lock_touchpad" ->
                [inner EXCEPT !.touchpads_blocked = msg.flag]
           [] msg.kind = "new_equalizer" ->
                [inner EXCEPT !.equalizer_type = msg.preset]
           [] OTHER -> inner

\* What the earbuds hold after they confirmed (or did not confirm) a message.
Confirm(ack, msg, res) ==
    IF res # "ok" THEN ack
    ELSE CASE msg.kind = "set_noise_reduction" ->
                [ack EXCEPT !.noise_reduction = msg.flag]
           [] msg.kind = "lock_touchpad" ->
                [ack EXCEPT !.touchpads_blocked = msg.flag]
           [] msg.kind = "new_equalizer" ->
                [ack EXCEPT !.equalizer_type = msg.preset]
           [] OTHER -> ack

ToggleValue_PassesThrough(key, inner) ==
    CASE key = "noise_reduction" -> bool_to_string(~inner.noise_reduction)
      [] key = "lock_touchpad" -> bool_to_string(~inner.touchpads_blocked)
      [] OTHER -> "true"

ToggleValue_NotNegated(key, inner) ==
    CASE key = "noise_reduction" -> bool_to_string(inner.noise_reduction)
      [] key = "lock_touchpad" -> bool_to_string(inner.touchpads_blocked)
      [] OTHER -> Absent

\* toggle_buds_value: the value string for a togglable key, Absent otherwise
ToggleValue(key, inner) ==
    CASE key = "noise_reduction" -> bool_to_string(~inner.noise_reduction)
      [] key = "lock_touchpad" -> bool_to_string(~inner.touchpads_blocked)
      [] OTHER -> Absent

ConfigWrite_WrongField(cfg, key, value) ==
    CASE key = "auto_pause" -> {[cfg EXCEPT !.auto_pause_music = value]}
      [] key = "auto_play" -> {[cfg EXCEPT !.auto_pause_music = value]}
      [] key = "low_battery_notification" ->
           {[cfg EXCEPT !.low_battery_notification = value]}
      [] OTHER -> {}

\* set_config_value: the config entry after the match on key; {} for `_`
ConfigWrite(cfg, key, value) ==
    CASE key = "auto_pause" -> {[cfg EXCEPT !.auto_pause_music = value]}
      [] key = "auto_play" -> {[cfg EXCEPT !.auto_resume_music = value]}
      [] key = "low_battery_notification" ->
           {[cfg EXCEPT !.low_battery_notification = value]}
      [] OTHER -> {}

get_device_config_mut(cfg, a) == IF a \in DOMAIN cfg THEN {cfg[a]} ELSE {}

ConfigOutcome_CreatesEntry(cfg, a, param1, param2) ==
    IF param1 = Absent \/ param2 = Absent
    THEN [err |-> "Missing parameter", config |-> cfg]
    ELSE LET entry == IF a \in DOMAIN cfg THEN cfg[a]
                      ELSE [auto_pause_music |-> TRUE, auto_resume_music |-> FALSE,
                            low_battery_notification |-> FALSE]
             new == ConfigWrite(entry, param1, str_to_bool(param2)) IN
           IF new = {}
           THEN [err |-> "Invalid key", config |-> cfg]
           ELSE [err |-> Absent,
                 config |-> [x \in DOMAIN cfg \cup {a} |->
                               IF x = a THEN CHOOSE e \in new : TRUE ELSE cfg[x]]]

ConfigOutcome_ParamsFirst(cfg, a, param1, param2) ==
    IF param1 = Absent \/ param2 = Absent
    THEN [err |-> "Missing parameter", config |-> cfg]
    ELSE IF ~has_device_config(cfg, a)
    THEN [err |-> "Device has no config!", config |-> cfg]
    ELSE LET new == ConfigWrite(cfg[a], param1, str_to_bool(param2)) IN
           IF new = {}
           THEN [err |-> "Invalid key", config |-> cfg]
           ELSE [err |-> Absent,
                 config |-> [cfg EXCEPT ![a] = CHOOSE e \in new : TRUE]]

\* set_config_value between config.lock() and config.save(): the error it
\* returns early with, or the config as written.
ConfigOutcome(cfg, a, param1, param2) ==
    IF ~has_device_config(cfg, a)
    THEN [err |-> "Device has no config!", config |-> cfg]
    ELSE IF param1 = Absent \/ param2 = Absent
    THEN [err |-> "Missing parameter", config |-> cfg]
    ELSE IF get_device_config_mut(cfg, a) = {}
    THEN [err |-> "error getting config!", config |-> cfg]
    ELSE LET entry == CHOOSE e \in get_device_config_mut(cfg, a) : TRUE
             new == ConfigWrite(entry, param1, str_to_bool(param2)) IN
           IF new = {}
           THEN [err |-> "Invalid key", config |-> cfg]
           ELSE [err |-> Absent,
                 config |-> [cfg EXCEPT ![a] = CHOOSE e \in new : TRUE]]

----------------------------------------------------------------------------
(* Initial state *)

Init ==
    /\ pc = [c \in Tasks |-> "read"]
    /\ payload = [c \in Tasks |-> NoPayload]
    /\ device_addr = [c \in Tasks |-> ""]
    /\ new_payload = [c \in Tasks |-> NoResponse]
    /\ inflight = [c \in Tasks |-> NoMessage]
    /\ send_res = [c \in Tasks |-> Absent]
    /\ saves = [c \in Tasks |-> 0]
    /\ save_res = [c \in Tasks |-> Absent]
    /\ written = [c \in Tasks |-> 0]
    /\ cd_lock = NoTask
    /\ cfg_lock = NoTask
    /\ \E w \in InitialWorlds :
         /\ devices = [a \in w[1] |-> InitialInner(a)]
         /\ config = [a \in w[2] |-> InitialConfig(a)]
    /\ acked = [a \in DOMAIN devices |-> Mirror(devices[a])]
    /\ persisted = config
    /\ pre = [devices |-> devices, config |-> config, persisted |-> persisted]

----------------------------------------------------------------------------
(* Steps of handle_client *)

\* The locals of the task are dropped when handle_client returns.
DropLocals(c) ==
    /\ payload' = [payload EXCEPT ![c] = NoPayload]
    /\ device_addr' = [device_addr EXCEPT ![c] = ""]
    /\ new_payload' = [new_payload EXCEPT ![c] = NoResponse]
    /\ inflight' = [inflight EXCEPT ![c] = NoMessage]
    /\ send_res' = [send_res EXCEPT ![c] = Absent]
    /\ saves' = [saves EXCEPT ![c] = 0]
    /\ save_res' = [save_res EXCEPT ![c] = Absent]

\* read_line failed: return without a response.
ReadFails(c) ==
    /\ pc[c] = "read"
    /\ pc' = [pc EXCEPT ![c] = "done"]
    /\ UNCHANGED <<payload, device_addr, new_payload, inflight, send_res, saves, save_res,
                   written, cd_lock, cfg_lock, devices, config, acked,
                   persisted, pre>>

\* serde_json::from_str failed: return without a response.
DecodeFails(c) ==
    /\ pc[c] = "read"
    /\ pc' = [pc EXCEPT ![c] = "done"]
    /\ UNCHANGED <<payload, device_addr, new_payload, inflight, send_res, saves, save_res,
                   written, cd_lock, cfg_lock, devices, config, acked,
                   persisted, pre>>

\* The request was read and decoded; the task goes on to cd.lock().await.
\* Only cmd is fixed here: no field of the payload is looked at before the lock
\* is held, and the other fields are fixed when LockRegistry first reads them.
Decode(c) ==
    /\ pc[c] = "read"
    /\ \E k \in Cmds :
         payload' = [payload EXCEPT ![c] =
                        [cmd |-> k, device |-> Pending,
                         opt_param1 |-> Pending, opt_param2 |-> Pending]]
    /\ pc' = [pc EXCEPT ![c] = "lock"]
    /\ UNCHANGED <<device_addr, new_payload, inflight, send_res, saves, save_res,
                   written, cd_lock, cfg_lock, devices, config, acked,
                   persisted, pre>>

LockRegistry_ConfigSkipsResolution(c) ==
    /\ pc[c] = "lock"
    /\ CanLock(cd_lock)
    /\ cd_lock' = c
    /\ pre' = [devices |-> devices, config |-> config, persisted |-> persisted]
    /\ \E d \in DeviceFields, k \in Keys, v \in Values :
         LET r == IF payload[c].cmd = "set_config"
                  THEN [err |-> Absent, found |-> {unwrap_or_default(d)}]
                  ELSE Resolution(devices, d) IN
           /\ payload' = [payload EXCEPT ![c] =
                             [cmd |-> payload[c].cmd, device |-> d,
                              opt_param1 |-> k, opt_param2 |-> v]]
           /\ IF r.err # Absent
              THEN /\ new_payload' = [new_payload EXCEPT ![c] = new_error("", r.err)]
                   /\ pc' = [pc EXCEPT ![c] = "respond"]
                   /\ UNCHANGED device_addr
              ELSE /\ \E a \in r.found :
                        device_addr' = [device_addr EXCEPT ![c] = a]
                   /\ pc' = [pc EXCEPT ![c] = "dispatch"]
                   /\ UNCHANGED new_payload
    /\ UNCHANGED <<inflight, send_res, saves, save_res, written, cfg_lock, devices,
                   config, acked, persisted>>

\* cd.lock().await returns the guard; the handler then runs, without another
\* await, the device count check and the resolution of payload.device.
LockRegistry(c) ==
    /\ pc[c] = "lock"
    /\ CanLock(cd_lock)
    /\ cd_lock' = c
    /\ pre' = [devices |-> devices, config |-> config, persisted |-> persisted]
    /\ \E d \in DeviceFields, k \in Keys, v \in Values :
         LET r == Resolution(devices, d) IN
           /\ payload' = [payload EXCEPT ![c] =
                             [cmd |-> payload[c].cmd, device |-> d,
                              opt_param1 |-> k, opt_param2 |-> v]]
           /\ IF r.err # Absent
              THEN /\ new_payload' = [new_payload EXCEPT ![c] = new_error("", r.err)]
                   /\ pc' = [pc EXCEPT ![c] = "respond"]
                   /\ UNCHANGED device_addr
              ELSE /\ \E a \in r.found :
                        device_addr' = [device_addr EXCEPT ![c] = a]
                   /\ pc' = [pc EXCEPT ![c] = "dispatch"]
                   /\ UNCHANGED new_payload
    /\ UNCHANGED <<inflight, send_res, saves, save_res, written, cfg_lock, devices,
                   config, acked, persisted>>

GetStatus_NoPayload(c) ==
    /\ pc[c] = "dispatch"
    /\ payload[c].cmd = "get_status"
    /\ new_payload' = [new_payload EXCEPT ![c] = new_success(device_addr[c], {})]
    /\ pc' = [pc EXCEPT ![c] = "respond"]
    /\ UNCHANGED <<payload, device_addr, inflight, send_res, saves, save_res, written,
                   cd_lock, cfg_lock, devices, config, acked, persisted, pre>>

GetStatus_Stale(c) ==
    /\ pc[c] = "dispatch"
    /\ payload[c].cmd = "get_status"
    /\ new_payload' = [new_payload EXCEPT ![c] =
                          new_success(device_addr[c], {InitialInner(device_addr[c])})]
    /\ pc' = [pc EXCEPT ![c] = "respond"]
    /\ UNCHANGED <<payload, device_addr, inflight, send_res, saves, save_res, written,
                   cd_lock, cfg_lock, devices, config, acked, persisted, pre>>

\* "get_status" arm of the match on payload.cmd
GetStatus(c) ==
    /\ pc[c] = "dispatch"
    /\ payload[c].cmd = "get_status"
    /\ new_payload' = [new_payload EXCEPT ![c] =
                          new_success(device_addr[c], {devices[device_addr[c]]})]
    /\ pc' = [pc EXCEPT ![c] = "respond"]
    /\ UNCHANGED <<payload, device_addr, inflight, send_res, saves, save_res, written,
                   cd_lock, cfg_lock, devices, config, acked, persisted, pre>>

\* The outcome of set_buds_option up to its send().await, for task c.
StartOption(c, key, value) ==
    LET m == BudsMessage(key, value) IN
      IF m.ok
      THEN /\ inflight' = [inflight EXCEPT ![c] = m.msg]
           /\ pc' = [pc EXCEPT ![c] = "sending"]
           /\ UNCHANGED new_payload
      ELSE /\ new_payload' = [new_payload EXCEPT ![c] =
                                 new_error(device_addr[c], m.err)]
           /\ pc' = [pc EXCEPT ![c] = "respond"]
           /\ UNCHANGED inflight

\* "set_value" arm: set_buds_value up to the send
SetValue(c) ==
    /\ pc[c] = "dispatch"
    /\ payload[c].cmd = "set_value"
    /\ IF payload[c].opt_param1 = Absent \/ payload[c].opt_param2 = Absent
       THEN /\ new_payload' = [new_payload EXCEPT ![c] =
                                  new_error(device_addr[c], "Missing parameter")]
            /\ pc' = [pc EXCEPT ![c] = "respond"]
            /\ UNCHANGED inflight
       ELSE StartOption(c, payload[c].opt_param1, payload[c].opt_param2)
    /\ UNCHANGED <<payload, device_addr, send_res, saves, save_res, written, cd_lock,
                   cfg_lock, devices, config, acked, persisted, pre>>

\* "toggle_value" arm: toggle_buds_value up to the send
ToggleValueStep(c) ==
    /\ pc[c] = "dispatch"
    /\ payload[c].cmd = "toggle_value"
    /\ LET key == payload[c].opt_param1
           value == ToggleValue(key, devices[device_addr[c]]) IN
         IF key = Absent
         THEN /\ new_payload' = [new_payload EXCEPT ![c] =
                                    new_error(device_addr[c], "Missing parameter")]
              /\ pc' = [pc EXCEPT ![c] = "respond"]
              /\ UNCHANGED inflight
         ELSE IF value = Absent
         THEN /\ new_payload' = [new_payload EXCEPT ![c] =
                                    new_error(device_addr[c], "Invalid key")]
              /\ pc' = [pc EXCEPT ![c] = "respond"]
              /\ UNCHANGED inflight
         ELSE StartOption(c, key, value)
    /\ UNCHANGED <<payload, device_addr, send_res, saves, save_res, written, cd_lock,
                   cfg_lock, devices, config, acked, persisted, pre>>

\* device_data.send(msg).await returned; the rest of set_buds_option and of
\* set_buds_value / toggle_buds_value.
SendReturns(c) ==
    /\ pc[c] = "sending"
    /\ \E res \in {"ok"} \cup SendErrors :
         LET a == device_addr[c] IN
           /\ send_res' = [send_res EXCEPT ![c] = res]
           /\ devices' = [devices EXCEPT ![a] = Commit(@, inflight[c], res)]
           /\ acked' = [acked EXCEPT ![a] = Confirm(@, inflight[c], res)]
           /\ new_payload' = [new_payload EXCEPT ![c] =
                                 IF res = "ok"
                                 THEN new_success(devices[a].address, {})
                                 ELSE new_error(a, res)]
    /\ pc' = [pc EXCEPT ![c] = "respond"]
    /\ UNCHANGED <<payload, device_addr, inflight, saves, save_res, written, cd_lock,
                   cfg_lock, config, persisted, pre>>

SetConfig_DropsRegistry(c) ==
    /\ pc[c] = "dispatch"
    /\ payload[c].cmd = "set_config"
    /\ CanLock(cfg_lock)
    /\ LET o == ConfigOutcome(config, device_addr[c],
                              payload[c].opt_param1, payload[c].opt_param2) IN
         IF o.err # Absent
         THEN /\ new_payload' = [new_payload EXCEPT ![c] =
                                    new_error(device_addr[c], o.err)]
              /\ pc' = [pc EXCEPT ![c] = "respond"]
              /\ UNCHANGED <<config, cfg_lock, cd_lock, saves>>
         ELSE /\ config' = o.config
              /\ cd_lock' = NoTask
              /\ cfg_lock' = c
              /\ saves' = [saves EXCEPT ![c] = @ + 1]
              /\ pc' = [pc EXCEPT ![c] = "saving"]
              /\ UNCHANGED new_payload
    /\ UNCHANGED <<payload, device_addr, inflight, send_res, save_res, written,
                   devices, acked, persisted, pre>>

\* "set_config" arm: set_config_value from config.lock().await up to
\* config.save().await, or up to one of its early returns.
SetConfig(c) ==
    /\ pc[c] = "dispatch"
    /\ payload[c].cmd = "set_config"
    /\ CanLock(cfg_lock)
    /\ LET o == ConfigOutcome(config, device_addr[c],
                              payload[c].opt_param1, payload[c].opt_param2) IN
         IF o.err # Absent
         THEN /\ new_payload' = [new_payload EXCEPT ![c] =
                                    new_error(device_addr[c], o.err)]
              /\ pc' = [pc EXCEPT ![c] = "respond"]
              /\ UNCHANGED <<config, cfg_lock, saves>>
         ELSE /\ config' = o.config
              /\ cfg_lock' = c
              /\ saves' = [saves EXCEPT ![c] = @ + 1]
              /\ pc' = [pc EXCEPT ![c] = "saving"]
              /\ UNCHANGED new_payload
    /\ UNCHANGED <<payload, device_addr, inflight, send_res, save_res, written, cd_lock,
                   devices, acked, persisted, pre>>

SaveReturns_RollsBack(c) ==
    /\ pc[c] = "saving"
    /\ \E res \in {"ok"} \cup SaveErrors :
         /\ save_res' = [save_res EXCEPT ![c] = res]
         /\ persisted' = IF res = "ok" THEN config ELSE persisted
         /\ config' = IF res = "ok" THEN config ELSE pre.config
         /\ new_payload' = [new_payload EXCEPT ![c] =
                               IF res = "ok"
                               THEN new_success(device_addr[c], {})
                               ELSE new_error(device_addr[c],
                                              "Err saving config: " \o res)]
    /\ cfg_lock' = NoTask
    /\ pc' = [pc EXCEPT ![c] = "respond"]
    /\ UNCHANGED <<payload, device_addr, inflight, send_res, saves, written,
                   cd_lock, devices, acked, pre>>

\* config.save().await returned; set_config_value returns and drops its guard.
SaveReturns(c) ==
    /\ pc[c] = "saving"
    /\ \E res \in {"ok"} \cup SaveErrors :
         /\ save_res' = [save_res EXCEPT ![c] = res]
         /\ persisted' = IF res = "ok" THEN config ELSE persisted
         /\ new_payload' = [new_payload EXCEPT ![c] =
                               IF res = "ok"
                               THEN new_success(device_addr[c], {})
                               ELSE new_error(device_addr[c],
                                              "Err saving config: " \o res)]
    /\ cfg_lock' = NoTask
    /\ pc' = [pc EXCEPT ![c] = "respond"]
    /\ UNCHANGED <<payload, device_addr, inflight, send_res, saves, written,
                   cd_lock, devices, config, acked, pre>>

UnknownCmd_Responds(c) ==
    /\ pc[c] = "dispatch"
    /\ payload[c].cmd \notin {"get_status", "set_value", "toggle_value", "set_config"}
    /\ new_payload' = [new_payload EXCEPT ![c] =
                          new_error(device_addr[c], "Invalid command")]
    /\ pc' = [pc EXCEPT ![c] = "respond"]
    /\ UNCHANGED <<payload, device_addr, inflight, send_res, saves, save_res,
                   written, cd_lock, cfg_lock, devices, config, acked,
                   persisted, pre>>

\* `_ => return`: no response; the guard on the connection data is dropped.
UnknownCmd(c) ==
    /\ pc[c] = "dispatch"
    /\ payload[c].cmd \notin {"get_status", "set_value", "toggle_value", "set_config"}
    /\ pc' = [pc EXCEPT ![c] = "done"]
    /\ cd_lock' = NoTask
    /\ DropLocals(c)
    /\ UNCHANGED <<written, cfg_lock, devices, config, acked, persisted, pre>>

Respond_KeepsGuard(c) ==
    /\ pc[c] = "respond"
    /\ \E ok \in BOOLEAN :
         written' = [written EXCEPT ![c] = IF ok THEN @ + 1 ELSE @]
    /\ pc' = [pc EXCEPT ![c] = "done"]
    /\ DropLocals(c)
    /\ UNCHANGED <<cd_lock, cfg_lock, devices, config, acked, persisted, pre>>

Respond_WritesTwice(c) ==
    /\ pc[c] = "respond"
    /\ \E ok \in BOOLEAN :
         written' = [written EXCEPT ![c] = IF ok THEN @ + 2 ELSE @]
    /\ pc' = [pc EXCEPT ![c] = "done"]
    /\ cd_lock' = NoTask
    /\ DropLocals(c)
    /\ UNCHANGED <<cfg_lock, devices, config, acked, persisted, pre>>

\* respond(): the response is written and flushed, or the write fails; either
\* way handle_client returns and the guard on the connection data is dropped.
Respond(c) ==
    /\ pc[c] = "respond"
    /\ \E ok \in BOOLEAN :
         written' = [written EXCEPT ![c] = IF ok THEN @ + 1 ELSE @]
    /\ pc' = [pc EXCEPT ![c] = "done"]
    /\ cd_lock' = NoTask
    /\ DropLocals(c)
    /\ UNCHANGED <<cfg_lock, devices, config, acked, persisted, pre>>

\* the steps of the task that handles connection c
TaskStep(c) ==
    \/ ReadFails(c)
    \/ DecodeFails(c)
    \/ Decode(c)
    \/ LockRegistry(c)
    \/ GetStatus(c)
    \/ SetValue(c)
    \/ ToggleValueStep(c)
    \/ SendReturns(c)
    \/ SetConfig(c)
    \/ SaveReturns(c)
    \/ UnknownCmd(c)
    \/ Respond(c)

Next == \E c \in Tasks : TaskStep(c)

Spec == Init /\ [][Next]_vars

\* Every task is scheduled again while it can take a step (a read, a send, a
\* save and a write all return), and a task waiting in cd.lock().await gets
\* the guard if the guard is free again and again.
FairSpec ==
    /\ Spec
    /\ \A c \in Tasks : WF_vars(TaskStep(c))
    /\ \A c \in Tasks : SF_vars(LockRegistry(c))

----------------------------------------------------------------------------
(* Properties *)

RecognizedCmds == {"get_status", "set_value", "toggle_value", "set_config"}

DeviceCmds == {"get_status", "set_value", "toggle_value"}

\* the tasks that hold a decoded request and are past cd.lock().await
InHandler(c) == pc[c] \in {"dispatch", "sending", "saving", "respond"}

\* the device field of c's request resolves in the registry
Resolves(c) == get_device_address(devices, unwrap_or_default(payload[c].device)) # {}

\* the mirrored attributes of every device are the ones it last confirmed
C1_MirrorIsConfirmed ==
    \A a \in DOMAIN devices :
        /\ devices[a].noise_reduction = acked[a].noise_reduction
        /\ devices[a].touchpads_blocked = acked[a].touchpads_blocked
        /\ devices[a].equalizer_type = acked[a].equalizer_type

\* a step changes a device's mirrored state only as the return of a successful
\* send to that device, in the attribute and to the value of the message sent
C1_ChangeFollowsSend ==
    \A a \in DOMAIN devices :
        devices'[a] # devices[a] =>
            \E c \in Tasks :
                /\ pc[c] = "sending"
                /\ send_res'[c] = "ok"
                /\ device_addr[c] = a
                /\ \/ /\ inflight[c].kind = "set_noise_reduction"
                      /\ devices'[a] =
                           [devices[a] EXCEPT !.noise_reduction = inflight[c].flag]
                   \/ /\ inflight[c].kind = "lock_touchpad"
                      /\ devices'[a] =
                           [devices[a] EXCEPT !.touchpads_blocked = inflight[c].flag]
                   \/ /\ inflight[c].kind = "new_equalizer"
                      /\ devices'[a] =
                           [devices[a] EXCEPT !.equalizer_type = inflight[c].preset]

(* C1: every device's mirrored noise_reduction, touchpads_blocked and
   equalizer_type equal what the device last confirmed (its initial values if
   it confirmed nothing), and a step changes the mirrored state of a device
   only as the return of a successful send to that device, and only in the
   attribute and to the value that the sent message carried. *)
C1_CommitOnConfirmation == []C1_MirrorIsConfirmed /\ [][C1_ChangeFollowsSend]_vars

\* a device whose mirrored state a confirmed send changed, while a later send
\* to the same device has just failed
C1_Witness ==
    \E c \in Tasks :
        /\ pc[c] = "respond"
        /\ send_res[c] \in SendErrors
        /\ devices[device_addr[c]] # InitialInner(device_addr[c])

(* C2: set_value with key noise_reduction and value "true" on a resolved
   device: when the send succeeded the device's mirrored noise_reduction is
   true and the response has status success; when the send failed the
   mirrored state of every device is as it was and the response has status
   error with the send failure's message. *)
C2_SetNoiseReduction ==
    \A c \in Tasks :
        ( /\ pc[c] = "respond"
          /\ payload[c].cmd = "set_value"
          /\ payload[c].opt_param1 = "noise_reduction"
          /\ payload[c].opt_param2 = "true"
          /\ device_addr[c] # "" ) =>
            /\ send_res[c] # Absent
            /\ send_res[c] = "ok" =>
                  /\ devices[device_addr[c]].noise_reduction = TRUE
                  /\ new_payload[c].status = "success"
            /\ send_res[c] # "ok" =>
                  /\ devices = pre.devices
                  /\ new_payload[c].status = "error"
                  /\ new_payload[c].message = send_res[c]

\* the request made d1's noise_reduction true (it starts false)
C2_Witness ==
    \E c \in Tasks :
        /\ pc[c] = "respond"
        /\ payload[c].cmd = "set_value"
        /\ payload[c].opt_param1 = "noise_reduction"
        /\ payload[c].opt_param2 = "true"
        /\ device_addr[c] = "d1"
        /\ send_res[c] = "ok"
        /\ pre.devices["d1"].noise_reduction = FALSE
        /\ devices["d1"].noise_reduction = TRUE

(* C3 as stated: a decoded request with an unrecognized cmd never has a
   response written, whatever the registry holds. *)
C3_NeverAnswered ==
    [][\A c \in Tasks :
          (payload[c].cmd \notin RecognizedCmds /\ payload[c].cmd # Absent)
              => written'[c] = written[c]]_vars

(* C3 amended: a decoded request with an unrecognized cmd whose device field
   resolves is dropped by the step after resolution: no response is written,
   the handler ends and the registry lock is free.  When the registry holds no
   device, or the device field does not resolve, the only response written is
   the error of the resolution ("No connected device found", "Device not
   found"). *)
C3_UnrecognizedCmd ==
    [][\A c \in Tasks :
          (payload[c].cmd \notin RecognizedCmds /\ payload[c].cmd # Absent) =>
              /\ pc[c] = "dispatch" =>
                    (pc'[c] # pc[c] =>
                        /\ pc'[c] = "done"
                        /\ written'[c] = written[c]
                        /\ cd_lock' = NoTask)
              /\ pc'[c] = "dispatch" => Resolves(c)'
              /\ written'[c] # written[c] =>
                    /\ ~Resolves(c)
                    /\ new_payload[c] =
                         new_error("", IF DOMAIN devices = {}
                                       THEN "No connected device found"
                                       ELSE "Device not found")]_vars

\* an unrecognized cmd on a resolved device, about to be dropped
C3_Witness ==
    \E c \in Tasks :
        /\ pc[c] = "dispatch"
        /\ payload[c].cmd = "reboot"
        /\ payload[c].device = "d2"
        /\ device_addr[c] = "d2"

(* C4: requests are serialized by the registry lock: a task between the start
   of its device resolution and the end of its handler holds the lock, every
   other task is before its cd.lock().await or has returned, at most one send
   is in flight, and the mirrored state a task finds while its send is in
   flight is the state it found when it took the lock. *)
C4_Serialized ==
    \A c \in Tasks :
        InHandler(c) =>
            /\ cd_lock = c
            /\ \A o \in Tasks \ {c} : pc[o] \in {"read", "lock", "done"}
            /\ pc[c] = "sending" =>
                  /\ devices = pre.devices
                  /\ Cardinality({o \in Tasks : pc[o] = "sending"}) = 1

\* a set_value to d2 is in flight after another request has changed d1 and
\* returned
C4_Witness ==
    \E c \in Tasks, o \in Tasks :
        /\ c # o
        /\ pc[o] = "done"
        /\ written[o] = 1
        /\ "d1" \in DOMAIN devices
        /\ devices["d1"] # InitialInner("d1")
        /\ pc[c] = "sending"
        /\ payload[c].cmd = "set_value"
        /\ device_addr[c] = "d2"

(* C5 as stated: the config lock is taken only by a set_config request, and
   the request that holds it does not hold the registry lock. *)
C5_LocksNotNested ==
    \A c \in Tasks :
        cfg_lock = c =>
            /\ payload[c].cmd = "set_config"
            /\ cd_lock # c

(* C5 amended: the config lock is taken only by a set_config request, and
   only by the request that holds the registry lock, which it keeps through
   its config write and its persistence call; so a set_config request waiting
   for the registry lock cannot proceed while another request holds that lock
   across a device send. *)
C5_ConfigLockInsideRegistryLock ==
    /\ \A c \in Tasks :
          cfg_lock = c =>
              /\ payload[c].cmd = "set_config"
              /\ pc[c] = "saving"
              /\ cd_lock = c
    /\ \A c \in Tasks :
          pc[c] = "saving" => (cfg_lock = c /\ cd_lock = c)
    /\ \A c \in Tasks, o \in Tasks :
          (pc[c] = "lock" /\ payload[c].cmd = "set_config" /\ pc[o] = "sending")
              => ~ENABLED LockRegistry(c)

\* a set_config holds both locks during its persistence call while another
\* set_config waits for the registry lock
C5_Witness ==
    \E c \in Tasks, o \in Tasks :
        /\ pc[c] = "saving"
        /\ cfg_lock = c
        /\ cd_lock = c
        /\ pc[o] = "lock"
        /\ payload[o].cmd = "set_config"

(* C6: toggle_value with key noise_reduction or lock_touchpad on a resolved
   device sends the negation of the device's mirrored value, whatever
   opt_param2 holds; the mirrored value is still the negated one while the
   send is in flight; a confirmed send flips it and a failed send leaves the
   mirrored state of every device as it was. *)
C6_ToggleSendsNegation ==
    \A c \in Tasks :
        ( /\ pc[c] \in {"sending", "respond"}
          /\ payload[c].cmd = "toggle_value"
          /\ payload[c].opt_param1 \in {"noise_reduction", "lock_touchpad"}
          /\ device_addr[c] # "" ) =>
            LET a == device_addr[c]
                noise == payload[c].opt_param1 = "noise_reduction"
                before == IF noise THEN pre.devices[a].noise_reduction
                          ELSE pre.devices[a].touchpads_blocked
                now == IF noise THEN devices[a].noise_reduction
                       ELSE devices[a].touchpads_blocked
            IN  /\ inflight[c].kind =
                     (IF noise THEN "set_noise_reduction" ELSE "lock_touchpad")
                /\ inflight[c].flag = ~before
                /\ pc[c] = "sending" => devices = pre.devices
                /\ pc[c] = "respond" =>
                      /\ send_res[c] # Absent
                      /\ send_res[c] = "ok" =>
                            /\ now = ~before
                            /\ new_payload[c].status = "success"
                      /\ send_res[c] # "ok" =>
                            /\ devices = pre.devices
                            /\ new_payload[c].status = "error"

\* a second toggle of lock_touchpad: the mirror is true after a first one, the
\* message in flight unlocks, and the client asked for "true"
C6_Witness ==
    \E c \in Tasks :
        /\ pc[c] = "sending"
        /\ payload[c].cmd = "toggle_value"
        /\ payload[c].opt_param1 = "lock_touchpad"
        /\ payload[c].opt_param2 = "true"
        /\ devices[device_addr[c]].touchpads_blocked = TRUE
        /\ inflight[c].kind = "lock_touchpad"
        /\ inflight[c].flag = FALSE

(* C7: a get_status, set_value or toggle_value request handled while the
   registry holds no device gets the response error "No connected device
   found"; nothing is sent and no mirrored state changes. *)
C7_NoConnectedDevice ==
    \A c \in Tasks :
        ( /\ InHandler(c)
          /\ payload[c].cmd \in DeviceCmds
          /\ DOMAIN devices = {} ) =>
            /\ pc[c] = "respond"
            /\ new_payload[c] = new_error("", "No connected device found")
            /\ inflight[c] = NoMessage
            /\ send_res[c] = Absent
            /\ devices = pre.devices

\* a well-formed set_value answered by the empty registry
C7_Witness ==
    \E c \in Tasks :
        /\ pc[c] = "respond"
        /\ DOMAIN devices = {}
        /\ payload[c] = [cmd |-> "set_value", device |-> "d1",
                         opt_param1 |-> "noise_reduction", opt_param2 |-> "true"]
        /\ new_payload[c].message = "No connected device found"

(* C8: a get_status, set_value or toggle_value request whose device field
   does not resolve in a non-empty registry gets the response error "Device
   not found", whatever opt_param1 and opt_param2 hold; nothing is sent and no
   mirrored state changes. *)
C8_DeviceNotFound ==
    \A c \in Tasks :
        ( /\ InHandler(c)
          /\ payload[c].cmd \in DeviceCmds
          /\ DOMAIN devices # {}
          /\ ~Resolves(c) ) =>
            /\ pc[c] = "respond"
            /\ new_payload[c] = new_error("", "Device not found")
            /\ device_addr[c] = ""
            /\ inflight[c] = NoMessage
            /\ send_res[c] = Absent
            /\ devices = pre.devices

\* a set_value without parameters, and a toggle_value with an unknown key, on
\* an unknown device: neither is answered "Missing parameter" or "Invalid key"
C8_Witness ==
    \E c \in Tasks :
        /\ pc[c] = "respond"
        /\ DOMAIN devices # {}
        /\ payload[c].device = "zz"
        /\ \/ /\ payload[c].cmd = "set_value"
              /\ payload[c].opt_param1 = Absent
           \/ /\ payload[c].cmd = "toggle_value"
              /\ payload[c].opt_param1 = "volume"
        /\ new_payload[c].message = "Device not found"

(* C9: the addresses that have a config entry are those of the initial
   state, whatever requests ran; a set_config for a resolved address without
   an entry gets the response error "Device has no config!", writes nothing
   and does not call the persistence. *)
C9_NoEntryCreated ==
    /\ \E w \in InitialWorlds : DOMAIN devices = w[1] /\ DOMAIN config = w[2]
    /\ DOMAIN persisted = DOMAIN config
    /\ \A c \in Tasks :
          ( /\ pc[c] \in {"saving", "respond"}
            /\ payload[c].cmd = "set_config"
            /\ device_addr[c] # ""
            /\ device_addr[c] \notin DOMAIN pre.config ) =>
              /\ pc[c] = "respond"
              /\ new_payload[c] = new_error(device_addr[c], "Device has no config!")
              /\ config = pre.config
              /\ saves[c] = 0

\* set_config auto_pause "false" for d2, which is connected and has no entry
C9_Witness ==
    \E c \in Tasks :
        /\ pc[c] = "respond"
        /\ payload[c].cmd = "set_config"
        /\ payload[c].opt_param1 = "auto_pause"
        /\ payload[c].opt_param2 = "false"
        /\ device_addr[c] = "d2"
        /\ "d2" \notin DOMAIN config
        /\ new_payload[c].message = "Device has no config!"

(* C10: a set_config with key auto_pause, auto_play or
   low_battery_notification and a value, for an address with an entry, sets
   auto_pause_music, auto_resume_music or low_battery_notification of that
   entry to the parsed boolean and changes no other field and no other entry;
   it calls the persistence exactly once; when the persistence succeeded the
   response is success without a payload. *)
C10_SetConfigWrites ==
    \A c \in Tasks :
        ( /\ pc[c] \in {"saving", "respond"}
          /\ payload[c].cmd = "set_config"
          /\ device_addr[c] \in DOMAIN pre.config
          /\ payload[c].opt_param1 \in
                {"auto_pause", "auto_play", "low_battery_notification"}
          /\ payload[c].opt_param2 # Absent ) =>
            LET a == device_addr[c]
                key == payload[c].opt_param1
                b == str_to_bool(payload[c].opt_param2)
                old == pre.config[a]
                new == [auto_pause_music |->
                            IF key = "auto_pause" THEN b ELSE old.auto_pause_music,
                        auto_resume_music |->
                            IF key = "auto_play" THEN b ELSE old.auto_resume_music,
                        low_battery_notification |->
                            IF key = "low_battery_notification" THEN b
                            ELSE old.low_battery_notification]
            IN  /\ config = [pre.config EXCEPT ![a] = new]
                /\ saves[c] = 1
                /\ pc[c] = "saving" => save_res[c] = Absent
                /\ pc[c] = "respond" =>
                      /\ save_res[c] # Absent
                      /\ save_res[c] = "ok" =>
                            /\ new_payload[c] = new_success(a, {})
                            /\ persisted = config

\* set_config low_battery_notification "true" for d1, saved: the field was
\* false and is true
C10_Witness ==
    \E c \in Tasks :
        /\ pc[c] = "respond"
        /\ payload[c].cmd = "set_config"
        /\ payload[c].opt_param1 = "low_battery_notification"
        /\ payload[c].opt_param2 = "true"
        /\ device_addr[c] = "d1"
        /\ save_res[c] = "ok"
        /\ pre.config["d1"].low_battery_notification = FALSE
        /\ config["d1"].low_battery_notification = TRUE
        /\ saves[c] = 1

\* the config field that key names, in entry e
ConfigFieldOf(e, key) ==
    CASE key = "auto_pause" -> e.auto_pause_music
      [] key = "auto_play" -> e.auto_resume_music
      [] key = "low_battery_notification" -> e.low_battery_notification

\* c runs set_config_value past its validation: it wrote a field and called save()
WroteConfig(c) ==
    /\ pc[c] \in {"saving", "respond"}
    /\ payload[c].cmd = "set_config"
    /\ saves[c] > 0

(* C11: when the persistence failed, the response of the set_config is an
   error whose message is "Err saving config: " followed by the failure's
   message, the written field keeps its new value and the persisted copy is
   the one from before the request; during the persistence call the task
   holds the config lock and the config is the one it wrote, so no other
   set_config has written in between. *)
C11_NoRollback ==
    \A c \in Tasks :
        WroteConfig(c) =>
            LET a == device_addr[c]
                b == str_to_bool(payload[c].opt_param2)
            IN  /\ ConfigFieldOf(config[a], payload[c].opt_param1) = b
                /\ \A x \in DOMAIN config \ {a} : config[x] = pre.config[x]
                /\ pc[c] = "saving" =>
                      /\ cfg_lock = c
                      /\ persisted = pre.persisted
                      /\ \A o \in Tasks \ {c} : pc[o] # "saving"
                /\ (pc[c] = "respond" /\ save_res[c] # "ok") =>
                      /\ save_res[c] \in SaveErrors
                      /\ new_payload[c] =
                           new_error(a, "Err saving config: " \o save_res[c])
                      /\ persisted = pre.persisted

\* the save failed: low_battery_notification of d1 is true in memory and false
\* in the persisted copy
C11_Witness ==
    \E c \in Tasks :
        /\ WroteConfig(c)
        /\ pc[c] = "respond"
        /\ save_res[c] = "disk full"
        /\ new_payload[c].message = "Err saving config: disk full"
        /\ device_addr[c] = "d1"
        /\ config["d1"].low_battery_notification = TRUE
        /\ persisted["d1"].low_battery_notification = FALSE

\* a response is written only by respond(), once, and a request that is not
\* decoded or has a recognized cmd ends only as the code says
C12_ResponseSteps ==
    \A c \in Tasks :
        /\ written'[c] # written[c] =>
              /\ pc[c] = "respond"
              /\ new_payload[c].status \in {"success", "error"}
              /\ written[c] = 0
              /\ written'[c] = 1
        /\ (pc[c] = "read" /\ pc'[c] = "done") => written'[c] = 0
        /\ (payload[c].cmd \in RecognizedCmds /\ pc'[c] = "done") =>
              pc[c] = "respond"

\* respond() can write the response of every request that reaches it
C12_CanRespond ==
    \A c \in Tasks :
        pc[c] = "respond" => ENABLED (Respond(c) /\ written'[c] = 1)

(* C12: no request has more than one response written on its connection; a
   response is written only by respond(), which a decoded request with a
   recognized cmd always reaches before it ends and which writes exactly one
   response when the write succeeds; a request that cannot be read or decoded
   ends with none. *)
C12_AtMostOneResponse ==
    /\ [](\A c \in Tasks : written[c] \in {0, 1})
    /\ []C12_CanRespond
    /\ [][C12_ResponseSteps]_vars

\* one request was answered and another, answered with an error, lost its
\* response to a failed write
C12_Witness ==
    \E c \in Tasks, o \in Tasks :
        /\ pc[c] = "done" /\ written[c] = 1
        /\ pc[o] = "done" /\ written[o] = 0
        /\ \E a \in DOMAIN devices : devices[a] # InitialInner(a)

\* c's set_value or toggle_value ran on a resolved device up to its send or
\* to its response
RanOnDevice(c, cmd) ==
    /\ pc[c] \in {"sending", "respond"}
    /\ payload[c].cmd = cmd
    /\ device_addr[c] # ""

\* c sent nothing and the mirrored state is the one it found
NothingSent(c) ==
    /\ pc[c] = "respond"
    /\ inflight[c] = NoMessage
    /\ send_res[c] = Absent
    /\ devices = pre.devices

(* C13 as stated: a set_value with both parameters and a key other than
   noise_reduction, lock_touchpad and equalizer, on a resolved device, gets
   the response error "Invalid key", sends nothing and changes no mirrored
   state. *)
C13_InvalidKey ==
    \A c \in Tasks :
        ( /\ RanOnDevice(c, "set_value")
          /\ payload[c].opt_param1 \notin
                {Absent, "noise_reduction", "lock_touchpad", "equalizer"}
          /\ payload[c].opt_param2 # Absent ) =>
            /\ NothingSent(c)
            /\ new_payload[c] = new_error(device_addr[c], "Invalid key")

\* the value is none of the strings a boolean, or a small unsigned integer, is
\* written as
Malformed(key, value) ==
    IF key = "equalizer" THEN parse_u8(value) = {}
    ELSE value \notin {"true", "false"}

(* C14 as stated: a set_value with a recognized key and a malformed value
   gets an error response, sends nothing and changes no mirrored state. *)
C14_MalformedRejected ==
    \A c \in Tasks :
        ( /\ RanOnDevice(c, "set_value")
          /\ payload[c].opt_param1 \in
                {"noise_reduction", "lock_touchpad", "equalizer"}
          /\ payload[c].opt_param2 # Absent
          /\ Malformed(payload[c].opt_param1, payload[c].opt_param2) ) =>
            /\ NothingSent(c)
            /\ new_payload[c].status = "error"

(* C14 amended: a set_value with key equalizer and a value that does not
   parse as a small unsigned integer gets the response error "could not parse
   value", sends nothing and changes no mirrored state; with key
   noise_reduction or lock_touchpad no value is rejected: a value that is not
   a truthy token is taken as false, and the message is sent with it. *)
C14_OnlyEqualizerRejects ==
    \A c \in Tasks :
        ( /\ RanOnDevice(c, "set_value")
          /\ payload[c].opt_param2 # Absent ) =>
            /\ ( /\ payload[c].opt_param1 = "equalizer"
                 /\ Malformed("equalizer", payload[c].opt_param2) ) =>
                  /\ NothingSent(c)
                  /\ new_payload[c] =
                       new_error(device_addr[c], "could not parse value")
            /\ payload[c].opt_param1 \in {"noise_reduction", "lock_touchpad"} =>
                  /\ inflight[c].kind =
                       (IF payload[c].opt_param1 = "noise_reduction"
                        THEN "set_noise_reduction" ELSE "lock_touchpad")
                  /\ inflight[c].flag = (payload[c].opt_param2 = "true")
                  /\ pc[c] = "respond" => send_res[c] # Absent

\* set_value noise_reduction "x" on d2, whose noise_reduction was true: the
\* message was sent with false and the confirmed send made the mirror false
C14_Witness ==
    \E c \in Tasks :
        /\ RanOnDevice(c, "set_value")
        /\ pc[c] = "respond"
        /\ payload[c].opt_param1 = "noise_reduction"
        /\ payload[c].opt_param2 = "x"
        /\ device_addr[c] = "d2"
        /\ send_res[c] = "ok"
        /\ pre.devices["d2"].noise_reduction = TRUE
        /\ devices["d2"].noise_reduction = FALSE

(* C15: a toggle_value with key equalizer or with an unknown key, on a
   resolved device, gets the response error "Invalid key", sends nothing and
   changes no mirrored state. *)
C15_ToggleInvalidKey ==
    \A c \in Tasks :
        ( /\ RanOnDevice(c, "toggle_value")
          /\ payload[c].opt_param1 \notin
                {Absent, "noise_reduction", "lock_touchpad"} ) =>
            /\ NothingSent(c)
            /\ new_payload[c] = new_error(device_addr[c], "Invalid key")

\* toggle_value equalizer with the value "2" was refused on d2
C15_Witness ==
    \E c \in Tasks :
        /\ RanOnDevice(c, "toggle_value")
        /\ payload[c].opt_param1 = "equalizer"
        /\ payload[c].opt_param2 = "2"
        /\ device_addr[c] = "d2"
        /\ new_payload[c].message = "Invalid key"

\* c's set_config ran on a resolved device up to its save or to its response
RanSetConfig(c) ==
    /\ pc[c] \in {"saving", "respond"}
    /\ payload[c].cmd = "set_config"
    /\ device_addr[c] # ""

\* c wrote no config field and did not call the persistence
NothingWritten(c) ==
    /\ pc[c] = "respond"
    /\ config = pre.config
    /\ persisted = pre.persisted
    /\ saves[c] = 0
    /\ save_res[c] = Absent

(* C16: set_config validates in a fixed order and rejects without effect: an
   address without a config entry gets "Device has no config!", also when key
   or value is missing; otherwise a missing key or value gets "Missing
   parameter"; otherwise an unrecognized key gets "Invalid key".  In the three
   cases no config field changes and the persistence is not called. *)
C16_ValidationOrder ==
    \A c \in Tasks :
        RanSetConfig(c) =>
            LET a == device_addr[c]
                key == payload[c].opt_param1
                value == payload[c].opt_param2
                rejected(msg) == /\ NothingWritten(c)
                                 /\ new_payload[c] = new_error(a, msg)
            IN  IF a \notin DOMAIN pre.config
                THEN rejected("Device has no config!")
                ELSE IF key = Absent \/ value = Absent
                THEN rejected("Missing parameter")
                ELSE IF key \notin {"auto_pause", "auto_play",
                                    "low_battery_notification"}
                THEN rejected("Invalid key")
                ELSE saves[c] = 1

\* a set_config without key for d2, which has no entry
C16_Witness ==
    \E c \in Tasks :
        /\ RanSetConfig(c)
        /\ device_addr[c] = "d2"
        /\ payload[c].opt_param1 = Absent
        /\ new_payload[c].message = "Device has no config!"

(* C17: every response handed to respond() is either an error with a message
   and no payload, or a success without message; a success carries a payload
   only for get_status, and then it is the state of the resolved device. *)
C17_ResponseShape ==
    \A c \in Tasks :
        pc[c] = "respond" =>
            \/ /\ new_payload[c].status = "error"
               /\ new_payload[c].message # Absent
               /\ new_payload[c].payload = {}
            \/ /\ new_payload[c].status = "success"
               /\ new_payload[c].message = Absent
               /\ new_payload[c].payload =
                    (IF payload[c].cmd = "get_status"
                     THEN {devices[device_addr[c]]} ELSE {})

\* a get_status answered with a payload while another request was answered
C17_Witness ==
    \E c \in Tasks, o \in Tasks :
        /\ pc[c] = "respond"
        /\ payload[c].cmd = "get_status"
        /\ new_payload[c].status = "success"
        /\ new_payload[c].payload # {}
        /\ pc[o] = "done"
        /\ written[o] = 1

(* C19: a get_status on a resolved device gets a success response whose device
   is the resolved address and whose payload is the mirrored state of that
   device as the registry holds it under the lock; the request changes no
   mirrored state and no config field, sends nothing and does not call the
   persistence. *)
C19_GetStatusReadsOnly ==
    \A c \in Tasks :
        ( /\ pc[c] \in {"sending", "saving", "respond"}
          /\ payload[c].cmd = "get_status"
          /\ device_addr[c] # "" ) =>
            /\ pc[c] = "respond"
            /\ new_payload[c] =
                 new_success(device_addr[c], {devices[device_addr[c]]})
            /\ devices[device_addr[c]].address = device_addr[c]
            /\ devices = pre.devices
            /\ config = pre.config
            /\ persisted = pre.persisted
            /\ inflight[c] = NoMessage
            /\ send_res[c] = Absent
            /\ saves[c] = 0

\* a get_status of d1 that reports what an earlier request changed
C19_Witness ==
    \E c \in Tasks :
        /\ pc[c] = "respond"
        /\ payload[c].cmd = "get_status"
        /\ device_addr[c] = "d1"
        /\ devices["d1"] # InitialInner("d1")
        /\ new_payload[c].payload = {devices["d1"]}

(* C20: a set_config is resolved against the registry under the registry
   lock before it reaches the config: with no device in the registry it gets
   "No connected device found", with a device field that does not resolve it
   gets "Device not found", also when that address has a config entry; in both
   cases no config field changes and the persistence is not called.  A
   set_config waiting for the registry lock takes no step while another
   request holds the lock across a device send. *)
C20_SetConfigResolvesFirst ==
    /\ \A c \in Tasks :
          (InHandler(c) /\ payload[c].cmd = "set_config") =>
              /\ cd_lock = c
              /\ DOMAIN devices = {} =>
                    /\ NothingWritten(c)
                    /\ new_payload[c] = new_error("", "No connected device found")
              /\ (DOMAIN devices # {} /\ ~Resolves(c)) =>
                    /\ NothingWritten(c)
                    /\ new_payload[c] = new_error("", "Device not found")
              /\ device_addr[c] # "" => device_addr[c] \in DOMAIN devices
    /\ \A c \in Tasks, o \in Tasks :
          (pc[c] = "lock" /\ payload[c].cmd = "set_config" /\ pc[o] = "sending")
              => ~ENABLED TaskStep(c)

\* a well-formed set_config for zz, which has a config entry and is not
\* connected
C20_Witness ==
    \E c \in Tasks :
        /\ pc[c] = "respond"
        /\ payload[c] = [cmd |-> "set_config", device |-> "zz",
                         opt_param1 |-> "auto_pause", opt_param2 |-> "false"]
        /\ "zz" \in DOMAIN config
        /\ new_payload[c].message = "Device not found"

\* no task holds the config guard without the registry guard, and a task
\* outside its handler holds none
C18_GuardsReleased ==
    /\ cfg_lock # NoTask => cd_lock = cfg_lock
    /\ \A c \in Tasks :
          pc[c] \in {"read", "lock", "done"} => (cd_lock # c /\ cfg_lock # c)
    /\ \A c \in Tasks : pc[c] = "lock" => ENABLED LockRegistry(c) \/ cd_lock # NoTask

(* C18: when every send and every persistence call returns and the locks are
   granted fairly, every request finishes, with a response or without, and
   both locks end up free, whatever the commands and the failures; the config
   lock is only taken inside the registry lock, and a task that has left its
   handler by any path holds no lock. *)
C18_EveryRequestFinishes ==
    /\ \A c \in Tasks : <>(pc[c] = "done")
    /\ <>[](cd_lock = NoTask /\ cfg_lock = NoTask)
    /\ []C18_GuardsReleased

\* a request is being served after another one ended without a response
C18_Witness ==
    \E c \in Tasks, o \in Tasks :
        /\ pc[o] = "done"
        /\ written[o] = 0
        /\ pc[c] = "sending"
        /\ cd_lock = c

====
